---- MODULE Spec2Model ----
(***************************************************************************)
(* Model of bot.py, the Columbus Dispatch morning summary scraper.         *)
(*                                                                         *)
(* A Python str is modelled as a sequence of one-character strings, so     *)
(* that substring tests, case folding, trimming, slicing and regular       *)
(* expression substitution are computed and not assumed.  Literal chunks   *)
(* of the program's own templates that hold no newline, asterisk or hash   *)
(* are kept as one element each (for instance "<br>").                     *)
(***************************************************************************)
EXTENDS Integers, Sequences, FiniteSets, TLC

VARIABLES
    pc,             \* position of the run inside run_daily_summary
    doc,            \* anchors of the parsed homepage (soup.find_all('a', href=True))
    max_articles,   \* parameter of scrape_articles
    idx,            \* position of the loops over article_links / articles
    articles,       \* list of article dicts
    processed_urls, \* set of accepted urls
    page,           \* response of the article page being extracted
    content,        \* return value of get_article_content
    attempt,        \* loop variable of the retry loop
    summary,        \* the digest returned by summarize_with_deepseek
    html_content,   \* return value of create_beautiful_email
    log             \* calls made to collaborators, in order

vars == <<pc, doc, max_articles, idx, articles, processed_urls, page, content,
          attempt, summary, html_content, log>>

---------------------------------------------------------------------------
(* Bounds of the model *)

MaxAnchors == 3
MaxCap == 2

---------------------------------------------------------------------------
(* str primitives *)

Min(a, b) == IF a < b THEN a ELSE b

UpperChars == <<"A","B","C","D","E","F","G","H","I","J","K","L","M",
                "N","O","P","Q","R","S","T","U","V","W","X","Y","Z">>
LowerChars == <<"a","b","c","d","e","f","g","h","i","j","k","l","m",
                "n","o","p","q","r","s","t","u","v","w","x","y","z">>

LowerChar(c) ==
    IF \E i \in 1..Len(UpperChars) : UpperChars[i] = c
    THEN LowerChars[CHOOSE i \in 1..Len(UpperChars) : UpperChars[i] = c]
    ELSE c

\* str.lower()
lower(s) == <<>> \o [i \in 1..Len(s) |-> LowerChar(s[i])]

\* sub in s
Contains(sub, s) ==
    \E i \in 1..(Len(s) - Len(sub) + 1) :
        \A k \in 1..Len(sub) : s[i + k - 1] = sub[k]

\* s.startswith(p)
startswith(s, p) == Len(s) >= Len(p) /\ SubSeq(s, 1, Len(p)) = p

\* s[:n]
Take(s, n) == SubSeq(s, 1, Min(n, Len(s)))

Whitespace == {" ", "\n", "\t"}

\* str.strip()
strip(s) ==
    IF \A i \in 1..Len(s) : s[i] \in Whitespace THEN <<>>
    ELSE LET first == CHOOSE i \in 1..Len(s) :
                          /\ s[i] \notin Whitespace
                          /\ \A j \in 1..(i - 1) : s[j] \in Whitespace
             last  == CHOOSE i \in 1..Len(s) :
                          /\ s[i] \notin Whitespace
                          /\ \A j \in (i + 1)..Len(s) : s[j] \in Whitespace
         IN  SubSeq(s, first, last)

RECURSIVE Concat(_)
\* ''.join(parts)
Concat(parts) ==
    IF parts = <<>> THEN <<>> ELSE Head(parts) \o Concat(Tail(parts))

RECURSIVE JoinSpace(_)
\* ' '.join(parts)
JoinSpace(parts) ==
    IF parts = <<>> THEN <<>>
    ELSE IF Len(parts) = 1 THEN parts[1]
    ELSE parts[1] \o <<" ">> \o JoinSpace(Tail(parts))

\* Tag.get_text(strip=True): every text fragment trimmed, the empty ones
\* dropped, the rest concatenated with no separator
RECURSIVE get_text(_)
get_text(fragments) ==
    IF fragments = <<>> THEN <<>>
    ELSE strip(Head(fragments)) \o get_text(Tail(fragments))

---------------------------------------------------------------------------
(* scrape_articles: link extraction *)

base_url == <<"h","t","t","p","s",":","/","/","w","w","w",".","d","i","s","p","a","t","c","h",".","c","o","m">>

path_markers == {
    <<"/","s","t","o","r","y","/">>,
    <<"/","n","e","w","s","/">>,
    <<"/","s","p","o","r","t","s","/">>,
    <<"/","b","u","s","i","n","e","s","s","/">> }

TitleMinLen == 10
DefaultMaxArticles == 10

\* any(keyword in href.lower() for keyword in [...])
is_article_href(href) == \E keyword \in path_markers : Contains(keyword, lower(href))

\* full_url = base_url + href if href.startswith('/') else href
resolve_url(href) == IF startswith(href, <<"/">>) THEN base_url \o href ELSE href

\* the acceptance test without the look-up in processed_urls
AcceptsIgnoringSeen(url, seen, n, cap) == n < cap

\* full_url not in processed_urls and len(articles) < max_articles
accepts(url, seen, n, cap) == url \notin seen /\ n < cap

\* title and len(title) > 10
title_ok(title) == title # <<>> /\ Len(title) > TitleMinLen

\* one iteration of `for link in article_links`
LinkStep ==
    /\ pc = "links"
    /\ idx <= Len(doc)
    /\ LET link == doc[idx]
           href == link.href
           full_url == resolve_url(href)
           title == get_text(link.text)
       IN  IF /\ href # <<>>
              /\ is_article_href(href)
              /\ accepts(full_url, processed_urls, Len(articles), max_articles)
              /\ title_ok(title)
           THEN /\ articles' = Append(articles,
                        [title |-> title, url |-> full_url, content |-> <<>>])
                /\ processed_urls' = processed_urls \cup {full_url}
           ELSE UNCHANGED <<articles, processed_urls>>
    /\ idx' = idx + 1
    /\ UNCHANGED <<pc, doc, max_articles, page, content, attempt, summary,
                   html_content, log>>

\* the loop over article_links is exhausted; the content loop starts
LinksDone ==
    /\ pc = "links"
    /\ idx > Len(doc)
    /\ pc' = "content"
    /\ idx' = 1
    /\ UNCHANGED <<doc, max_articles, articles, processed_urls, page, content,
                   attempt, summary, html_content, log>>

---------------------------------------------------------------------------
(* Homepage documents *)

Anchor(href, text) == [href |-> href, text |-> text]

HomeAnchors == {
    \* <a href="/news/a">  Mayor speaks! </a>
    Anchor(<<"/","n","e","w","s","/","a">>,
           << <<" "," ","M","a","y","o","r"," ","s","p","e","a","k","s","!"," ">> >>),
    \* the same article by its absolute address
    Anchor(<<"h","t","t","p","s",":","/","/","w","w","w",".","d","i","s","p","a","t","c","h",".","c","o","m","/","n","e","w","s","/","a">>,
           << <<"O","h","i","o"," ","S","t","a","t","e"," ","w","i","n","s"," ","b","i","g"," ","g","a","m","e">> >>),
    \* nine visible characters inside thirteen raw ones
    Anchor(<<"/","s","t","o","r","y","/","b">>,
           << <<" "," ","S","h","o","r","t"," ","o","n","e"," "," ">> >>),
    Anchor(<<"/","s","t","o","r","y","/","b">>,
           << <<"S","t","o","c","k"," ","M","A","R","K","E","T"," ","u","p">> >>),
    \* <a href="/NEWS/c"><span>Council </span><span>votes today</span></a>
    Anchor(<<"/","N","E","W","S","/","c">>,
           << <<"C","o","u","n","c","i","l"," ">>, <<"v","o","t","e","s"," ","t","o","d","a","y">> >>),
    \* a path marker behind neither a slash nor a scheme
    Anchor(<<"x","/","n","e","w","s","/","a">>,
           << <<"L","o","c","a","l"," ","t","e","a","m"," ","n","e","w","s">> >>),
    Anchor(<<"/","a","b","o","u","t">>,
           << <<"O","h","i","o"," ","S","t","a","t","e"," ","w","i","n","s"," ","b","i","g"," ","g","a","m","e">> >>),
    Anchor(<<>>,
           << <<"L","o","c","a","l"," ","t","e","a","m"," ","n","e","w","s">> >>) }

---------------------------------------------------------------------------
(* get_article_content *)

ContentLimit == 2000
ScanLimit == 10

content_selectors == <<"div.article-body", "div.story-body", "div.entry-content",
                       "article p", "div.content p">>

RECURSIVE ParagraphsOf(_)
\* the text fragments of the p elements of a list of top-level elements, in
\* document order; a top-level p is its own only paragraph
ParagraphsOf(blocks) ==
    IF blocks = <<>> THEN <<>>
    ELSE [i \in 1..Len(Head(blocks).ps) |-> <<Head(blocks).ps[i]>>]
         \o ParagraphsOf(Tail(blocks))

\* soup.select(selector): the matched elements in document order, each given
\* as the list of its text fragments
select(selector, blocks) ==
    IF selector = "article p"
    THEN ParagraphsOf(SelectSeq(blocks, LAMBDA b : b.kind = "article"))
    ELSE IF selector = "div.content p"
    THEN ParagraphsOf(SelectSeq(blocks, LAMBDA b : b.kind = "div.content"))
    ELSE LET hit == SelectSeq(blocks, LAMBDA b : b.kind = selector)
         IN  [i \in 1..Len(hit) |-> hit[i].ps]

\* soup.find_all('p')
find_all_p(blocks) == ParagraphsOf(blocks)

\* ' '.join([elem.get_text(strip=True) for elem in elements])
join_texts(elements) ==
    JoinSpace([i \in 1..Len(elements) |-> get_text(elements[i])])

\* the selector loop, were it to pass over a match whose text is empty
RECURSIVE SelectContentRetrying(_, _)
SelectContentRetrying(i, blocks) ==
    IF i > Len(content_selectors) THEN <<>>
    ELSE IF join_texts(select(content_selectors[i], blocks)) # <<>>
    THEN join_texts(select(content_selectors[i], blocks))
    ELSE SelectContentRetrying(i + 1, blocks)

RECURSIVE select_content(_, _)
\* the loop over content_selectors from position i on: the first selector
\* with a match decides content and ends the loop
select_content(i, blocks) ==
    IF i > Len(content_selectors) THEN <<>>
    ELSE IF select(content_selectors[i], blocks) # <<>>
    THEN join_texts(select(content_selectors[i], blocks))
    ELSE select_content(i + 1, blocks)

\* the fallback over paragraphs[:10]
paragraph_scan(blocks) == join_texts(Take(find_all_p(blocks), ScanLimit))

\* get_article_content(url), given the response the request for url gets; a
\* failed request raises inside the try and the handler returns ""
get_article_content(resp) ==
    IF ~resp.ok THEN <<>>
    ELSE LET found == select_content(1, resp.blocks)
             text  == IF found = <<>> THEN paragraph_scan(resp.blocks) ELSE found
         IN  Take(text, ContentLimit)

\* a call of get_article_content on its own
GetContent ==
    /\ pc = "get_content"
    /\ content' = get_article_content(page)
    /\ pc' = "got_content"
    /\ UNCHANGED <<doc, max_articles, idx, articles, processed_urls, page,
                   attempt, summary, html_content, log>>

---------------------------------------------------------------------------
(* Article pages *)

Element(kind, ps) == [kind |-> kind, ps |-> ps]

Rep(c, n) == [i \in 1..n |-> c]

PageElements == {
    Element("div.article-body", << <<" ","a","b"," ">>, <<"c">> >>),
    \* <div class="article-body"></div>: matched, and without text
    Element("div.article-body", <<>>),
    Element("div.story-body", << <<"d">> >>),
    Element("div.entry-content", << <<"e","\n">> >>),
    Element("article", << <<"f">>, <<" ","g">> >>),
    \* <article><p></p></article>
    Element("article", << <<>> >>),
    Element("div.content", << <<"h">> >>),
    Element("p", << <<"i"," ","j">> >>),
    Element("div", [i \in 1..(ScanLimit + 1) |-> <<"k">>]),
    Element("p", << Rep("x", ContentLimit + 1) >>) }

MaxPageElements == 2

Response(blocks) == [ok |-> TRUE, blocks |-> blocks]

SeqsUpTo(S, n) == UNION { [1..k -> S] : k \in 0..n }

NoResponse == [ok |-> FALSE, blocks |-> <<>>]

---------------------------------------------------------------------------
(* create_fallback_summary *)

FallbackCap == 8
CategoryCap == 3

local_words == { <<"c","o","l","u","m","b","u","s">>,
    <<"o","h","i","o">>,
    <<"l","o","c","a","l">>,
    <<"c","i","t","y">>,
    <<"c","o","u","n","t","y">> }
sports_words == { <<"s","p","o","r","t","s">>,
    <<"g","a","m","e">>,
    <<"t","e","a","m">>,
    <<"p","l","a","y","e","r">>,
    <<"s","c","o","r","e">> }
business_words == { <<"b","u","s","i","n","e","s","s">>,
    <<"e","c","o","n","o","m","y">>,
    <<"m","a","r","k","e","t">>,
    <<"c","o","m","p","a","n","y">> }

\* any(word in title_lower for word in words)
any_word_in(words, title_lower) == \E word \in words : Contains(word, title_lower)

\* the chain with the Sports test ahead of the Local News test
CategorySportsFirst(title) ==
    LET title_lower == lower(title)
    IN  IF any_word_in(sports_words, title_lower) THEN "Sports"
        ELSE IF any_word_in(local_words, title_lower) THEN "Local News"
        ELSE IF any_word_in(business_words, title_lower) THEN "Business"
        ELSE "Other"

\* the if / elif / elif / else chain over title_lower
category_of(title) ==
    LET title_lower == lower(title)
    IN  IF any_word_in(local_words, title_lower) THEN "Local News"
        ELSE IF any_word_in(sports_words, title_lower) THEN "Sports"
        ELSE IF any_word_in(business_words, title_lower) THEN "Business"
        ELSE "Other"

\* the keys of the categories dict, in insertion order
category_names == <<"Local News", "Sports", "Business", "Other">>

\* categories[name] after the loop over articles[:8]
categories(name, arts) ==
    LET chosen == SelectSeq(Take(arts, FallbackCap),
                            LAMBDA a : category_of(a.title) = name)
    IN  [i \in 1..Len(chosen) |-> chosen[i].title]

TagMark == "(label) "
BulletMark == "(bullet) "

\* what the loop over categories.items() adds for one category
category_section(name, titles) ==
    IF titles = <<>> THEN <<>>
    ELSE <<"\n", TagMark, "<strong>", name, ":", "</strong>", "<br>", "\n">>
         \o Concat([i \in 1..Min(CategoryCap, Len(titles)) |->
                        <<BulletMark>> \o titles[i] \o <<"<br>", "\n">>])
         \o <<"<br>", "\n">>

fallback_header ==
    <<"Good morning, Columbus! (sun)", "\n", "\n",
      "While our AI summarizer is taking a coffee break, here's what's happening in our city today (",
      "{today}", "):", "\n", "\n",
      "(news) ", "<strong>", "Top Stories from The Columbus Dispatch:", "</strong>",
      "\n", "\n">>

fallback_footer ==
    <<"Stay informed, stay connected, and have a wonderful day in Columbus! (city)",
      "<br>", "<br>", "\n", "\n",
      "Check out the full articles below for all the details.">>

create_fallback_summary(arts) ==
    fallback_header
    \o Concat([k \in 1..Len(category_names) |->
                  category_section(category_names[k],
                                   categories(category_names[k], arts))])
    \o fallback_footer

---------------------------------------------------------------------------
(* convert_markdown_to_html *)

Minimum(S) == CHOOSE x \in S : \A y \in S : x <= y

RECURSIVE split_lines(_)
\* the lines of s: what ^ and $ delimit under re.MULTILINE
split_lines(s) ==
    LET breaks == { i \in 1..Len(s) : s[i] = "\n" }
    IN  IF breaks = {} THEN <<s>>
        ELSE <<SubSeq(s, 1, Minimum(breaks) - 1)>>
             \o split_lines(SubSeq(s, Minimum(breaks) + 1, Len(s)))

RECURSIVE join_lines(_)
join_lines(lines) ==
    IF Len(lines) = 1 THEN lines[1]
    ELSE lines[1] \o <<"\n">> \o join_lines(Tail(lines))

\* one line under re.sub(r'^#{n} (.+)$', r'<hn>\1</hn>', flags=re.MULTILINE)
header_line(line, n, open, close) ==
    IF /\ Len(line) >= n + 2
       /\ \A k \in 1..n : line[k] = "#"
       /\ line[n + 1] = " "
    THEN <<open>> \o SubSeq(line, n + 2, Len(line)) \o <<close>>
    ELSE line

header_sub(s, n, open, close) ==
    LET lines == split_lines(s)
    IN  join_lines([i \in 1..Len(lines) |-> header_line(lines[i], n, open, close)])

\* the ends j of a match of mark (.+?) mark that starts at i, mark being w
\* asterisks: at least one character between, none of them a newline
span_ends(s, i, w) ==
    { j \in (i + w + 1)..(Len(s) - w + 1) :
        /\ \A k \in j..(j + w - 1) : s[k] = "*"
        /\ \A k \in (i + w)..(j - 1) : s[k] # "\n" }

span_starts(s, w) ==
    { i \in 1..(Len(s) - w + 1) :
        /\ \A k \in i..(i + w - 1) : s[k] = "*"
        /\ span_ends(s, i, w) # {} }

RECURSIVE span_sub(_, _, _, _)
\* re.sub of mark (.+?) mark: leftmost match first, shortest at that start,
\* and the scan goes on behind the match
span_sub(s, w, open, close) ==
    IF span_starts(s, w) = {} THEN s
    ELSE LET i == Minimum(span_starts(s, w))
             j == Minimum(span_ends(s, i, w))
         IN  SubSeq(s, 1, i - 1) \o <<open>> \o SubSeq(s, i + w, j - 1) \o <<close>>
             \o span_sub(SubSeq(s, j + w, Len(s)), w, open, close)

\* text.replace('\n', '<br>')
replace_newlines(s) == [i \in 1..Len(s) |-> IF s[i] = "\n" THEN "<br>" ELSE s[i]]

RECURSIVE replace_all(_, _, _)
\* re.sub(pat, rep, s) for a literal pat: leftmost, non-overlapping, one pass
replace_all(s, pat, rep) ==
    IF s = <<>> THEN <<>>
    ELSE IF startswith(s, pat)
    THEN rep \o replace_all(SubSeq(s, Len(pat) + 1, Len(s)), pat, rep)
    ELSE <<Head(s)>> \o replace_all(Tail(s), pat, rep)

\* no clean-up at all
KeepEmptyParagraphs(s) == s

\* the two clean-up substitutions
drop_empty_paragraphs(s) ==
    replace_all(replace_all(s, <<"<p>", "</p>">>, <<>>),
                <<"<p>", "<br>", "</p>">>, <<>>)

convert_markdown_to_html(text) ==
    LET h3 == header_sub(text, 3, "<h3>", "</h3>")
        h2 == header_sub(h3, 2, "<h2>", "</h2>")
        h1 == header_sub(h2, 1, "<h1>", "</h1>")
        bold == span_sub(h1, 2, "<strong>", "</strong>")
        italic == span_sub(bold, 1, "<em>", "</em>")
        br == replace_newlines(italic)
        paras == replace_all(br, <<"<br>", "<br>">>, <<"</p>", "<p>">>)
    IN  drop_empty_paragraphs(<<"<p>">> \o paras \o <<"</p>">>)

---------------------------------------------------------------------------
(* create_beautiful_email *)

DisplayCap == 8

\* the template around the converted digest and the links of articles[:8]
create_beautiful_email(digest, arts) ==
    [summary_content |-> convert_markdown_to_html(digest),
     links |-> [i \in 1..Min(DisplayCap, Len(arts)) |->
                    <<arts[i].url, arts[i].title>>]]

NoEmail == [summary_content |-> <<>>, links |-> <<>>]

---------------------------------------------------------------------------
(* Inputs of a whole run *)

MaxRunAnchors == 2

RunAnchors == {
    Anchor(<<"/","n","e","w","s","/","a">>,
           << <<" "," ","M","a","y","o","r"," ","s","p","e","a","k","s","!"," ">> >>),
    Anchor(<<"/","s","t","o","r","y","/","b">>,
           << <<" "," ","S","h","o","r","t"," ","o","n","e"," "," ">> >>),
    Anchor(<<"/","N","E","W","S","/","c">>,
           << <<"C","o","u","n","c","i","l"," ">>, <<"v","o","t","e","s"," ","t","o","d","a","y">> >>) }

RunPages == {
    NoResponse,
    Response(<< Element("div.article-body", << <<" ","a","b"," ">>, <<"c">> >>) >>) }

---------------------------------------------------------------------------
(* JSON values and the responses of the chat-completion endpoint *)

JStr(s) == [t |-> "str", v |-> s]
JNum(n) == [t |-> "num", v |-> <<n>>]
JArr(items) == [t |-> "arr", v |-> items]
JObj(fields) == [t |-> "obj", v |-> fields]
JNull == [t |-> "null", v |-> <<>>]

\* the subscript raised KeyError, IndexError or TypeError
Raised == [t |-> "raise", v |-> <<>>]

\* value[key] for a str key
item(value, key) ==
    IF value.t = "obj" /\ key \in DOMAIN value.v THEN value.v[key] ELSE Raised

\* value[0]
first_item(value) ==
    IF value.t = "arr" /\ Len(value.v) > 0 THEN value.v[1]
    ELSE IF value.t = "str" /\ Len(value.v) > 0 THEN JStr(<<value.v[1]>>)
    ELSE Raised

\* result['choices'][0]['message']['content']
message_content(result) ==
    item(item(first_item(item(result, "choices")), "message"), "content")

Outcome(kind, body) == [kind |-> kind, body |-> body]

Completion(value) ==
    JObj([choices |-> JArr(<< JObj([message |->
              JObj([role |-> JStr(<<"a">>), content |-> value])]) >>)])

llm_text == <<"H","i"," ","*","a","l","l","*","\n","\n","B","y","e">>

\* what one requests.post to the endpoint can end in
Outcomes == {
    Outcome("timeout", JNull),
    Outcome("connection_error", JNull),
    Outcome("http_error", JNull),
    Outcome("invalid_json", JNull),
    Outcome("ok", Completion(JStr(llm_text))),
    Outcome("ok", Completion(JStr(<<>>))),
    Outcome("ok", Completion(JNull)),
    Outcome("ok", Completion(JNum(42))),
    Outcome("ok", JObj([error |-> JStr(<<"b","u","s","y">>)])),
    Outcome("ok", JObj([choices |-> JArr(<<>>)])),
    Outcome("ok", JObj([choices |-> JArr(<< JObj([message |->
                          JObj([role |-> JStr(<<"a">>)])]) >>)])),
    Outcome("ok", JNull) }

NoOutcome == Outcome("none", JNull)

Call(name, arg, resp) == [call |-> name, arg |-> arg, resp |-> resp]

---------------------------------------------------------------------------
(* summarize_with_deepseek *)

MaxAttempts == 3
BaseTimeout == 30
TimeoutStep == 15
RetryDelay == 5

\* one timeout for every attempt
FlatTimeout(n) == BaseTimeout

\* timeout = 30 + (attempt * 15)
attempt_timeout(n) == BaseTimeout + (n * TimeoutStep)

\* a delay behind the first attempt only
SleepsAfterFirstOnly(n) == n < MaxAttempts - 2

\* if attempt < 2
sleeps_after(n) == n < MaxAttempts - 1

\* raise_for_status, response.json() and the subscripts: the value the try
\* block returns, or Raised when any of them raises
attempt_result(resp) ==
    IF resp.kind = "ok" THEN message_content(resp.body) ELSE Raised

\* one iteration of `for attempt in range(3)`.  The payload, built from the
\* titles and content[:500], goes out with every request; what the endpoint
\* answers is the environment's choice
Attempt ==
    /\ pc = "summarize"
    /\ attempt < MaxAttempts
    /\ \E resp \in Outcomes :
         LET posted == Append(log, Call("requests.post", attempt_timeout(attempt), resp))
         IN  IF attempt_result(resp) # Raised
             THEN /\ summary' = attempt_result(resp)
                  /\ pc' = "render"
                  /\ log' = posted
                  /\ UNCHANGED attempt
             ELSE /\ log' = IF sleeps_after(attempt)
                            THEN Append(posted, Call("time.sleep", RetryDelay, NoOutcome))
                            ELSE posted
                  /\ attempt' = attempt + 1
                  /\ UNCHANGED <<pc, summary>>
    /\ UNCHANGED <<doc, max_articles, idx, articles, processed_urls, page,
                   content, html_content>>

\* the loop ran out: return self.create_fallback_summary(articles)
Fallback ==
    /\ pc = "summarize"
    /\ attempt >= MaxAttempts
    /\ log' = Append(log, Call("create_fallback_summary", 0, NoOutcome))
    /\ summary' = JStr(create_fallback_summary(articles))
    /\ pc' = "render"
    /\ UNCHANGED <<doc, max_articles, idx, articles, processed_urls, page,
                   content, attempt, html_content>>

---------------------------------------------------------------------------
(* scrape_articles: the homepage request and the content loop *)

HomeResponse(ok, anchors) == [ok |-> ok, anchors |-> anchors]

\* requests.get(self.base_url, ...) and the parse of the homepage; a failed
\* request raises, the handler logs and scrape_articles returns []
FetchHome ==
    /\ pc = "start"
    /\ \E resp \in {HomeResponse(FALSE, <<>>)} \cup
                   { HomeResponse(TRUE, d) : d \in SeqsUpTo(RunAnchors, MaxRunAnchors) } :
         IF resp.ok
         THEN /\ doc' = resp.anchors
              /\ pc' = "links"
              /\ log' = Append(log, Call("requests.get", 1, NoOutcome))
         ELSE /\ pc' = "check"
              /\ log' = Append(log, Call("requests.get", 0, NoOutcome))
              /\ UNCHANGED doc
    /\ idx' = 1
    /\ articles' = <<>>
    /\ processed_urls' = {}
    /\ UNCHANGED <<max_articles, page, content, attempt, summary, html_content>>

\* one iteration of `for article in articles`
ContentStep ==
    /\ pc = "content"
    /\ idx <= Len(articles)
    /\ \E resp \in RunPages :
         /\ page' = resp
         /\ content' = get_article_content(resp)
         /\ articles' = [articles EXCEPT ![idx].content = get_article_content(resp)]
    /\ log' = Append(log, Call("time.sleep", 1, NoOutcome))
    /\ idx' = idx + 1
    /\ UNCHANGED <<pc, doc, max_articles, processed_urls, attempt, summary,
                   html_content>>

\* return articles
ContentDone ==
    /\ pc = "content"
    /\ idx > Len(articles)
    /\ pc' = "check"
    /\ UNCHANGED <<doc, max_articles, idx, articles, processed_urls, page,
                   content, attempt, summary, html_content, log>>

---------------------------------------------------------------------------
(* run_daily_summary, send_email *)

\* run_daily_summary without the early return
CheckArticlesNoReturn ==
    /\ pc = "check"
    /\ pc' = "summarize"
    /\ attempt' = 0
    /\ log' = Append(log, Call("summarize_with_deepseek", 0, NoOutcome))
    /\ UNCHANGED <<doc, max_articles, idx, articles, processed_urls, page,
                   content, summary, html_content>>

\* if not articles: warn and return; else call summarize_with_deepseek
CheckArticles ==
    /\ pc = "check"
    /\ IF articles = <<>>
       THEN /\ pc' = "done"
            /\ log' = Append(log, Call("logger.warning", 0, NoOutcome))
            /\ UNCHANGED attempt
       ELSE /\ pc' = "summarize"
            /\ attempt' = 0
            /\ log' = Append(log, Call("summarize_with_deepseek", 0, NoOutcome))
    /\ UNCHANGED <<doc, max_articles, idx, articles, processed_urls, page,
                   content, summary, html_content>>

\* html_content = self.create_beautiful_email(summary, articles); re.sub on
\* a value that is no str raises TypeError, which nothing catches
Render ==
    /\ pc = "render"
    /\ log' = Append(log, Call("create_beautiful_email", 0, NoOutcome))
    /\ IF summary.t = "str"
       THEN /\ html_content' = create_beautiful_email(summary.v, articles)
            /\ pc' = "send"
       ELSE /\ pc' = "raised"
            /\ UNCHANGED html_content
    /\ UNCHANGED <<doc, max_articles, idx, articles, processed_urls, page,
                   content, attempt, summary>>

\* self.send_email(html_content): one resend.Emails.send, its failure logged
Send ==
    /\ pc = "send"
    /\ \E delivered \in {0, 1} :
         log' = Append(log, Call("resend.Emails.send", delivered, NoOutcome))
    /\ pc' = "done"
    /\ UNCHANGED <<doc, max_articles, idx, articles, processed_urls, page,
                   content, attempt, summary, html_content>>

---------------------------------------------------------------------------
(* Inputs of create_fallback_summary and convert_markdown_to_html *)

MaxHead == 1
MaxPad == 7
MaxTail == 1

FallbackTitles == {
    <<"O","h","i","o"," ","S","t","a","t","e"," ","w","i","n","s"," ","b","i","g"," ","g","a","m","e">>,
    <<"T","e","a","m"," ","w","i","n","s"," ","a","g","a","i","n">>,
    <<"S","t","o","c","k"," ","M","A","R","K","E","T"," ","u","p">>,
    <<"R","a","i","n"," ","e","x","p","e","c","t","e","d"," ","t","o","d","a","y">> }

UrlIds == <<"1","2","3","4","5","6","7","8","9","a","b","c","d","e","f","g">>

\* articles as scrape_articles builds them: distinct urls, titles in order
MakeArticles(titles) ==
    [i \in 1..Len(titles) |->
        [title |-> titles[i],
         url |-> base_url \o <<"/","n","e","w","s","/", UrlIds[i]>>,
         content |-> <<>>]]

FallbackInputs ==
    { MakeArticles(h \o Rep(p, n) \o tl) :
        h \in SeqsUpTo(FallbackTitles, MaxHead),
        p \in FallbackTitles,
        n \in 0..MaxPad,
        tl \in SeqsUpTo(FallbackTitles, MaxTail) }

MaxBlocks == 2
MaxRun == 4
MaxEdge == 3

MarkdownBlocks == {
    <<"*","*","H","e","l","l","o","*","*"," ","*","w","o","r","l","d","*">>,
    <<"S","e","c","o","n","d"," ","p","a","r","a">>,
    <<"#"," ","H","i">>,
    <<"a","*","b">> }

RECURSIVE MarkdownBody(_, _)
\* blocks[1], seps[1] newlines, blocks[2], ...
MarkdownBody(blocks, seps) ==
    IF blocks = <<>> THEN <<>>
    ELSE IF Len(blocks) = 1 THEN blocks[1]
    ELSE blocks[1] \o Rep("\n", seps[1]) \o MarkdownBody(Tail(blocks), Tail(seps))

MarkdownInputs ==
    UNION { { Rep("\n", lead) \o MarkdownBody(b, seps) \o Rep("\n", trail) :
                seps \in [1..(Len(b) - 1) -> 1..MaxRun],
                lead \in 0..MaxEdge,
                trail \in 0..MaxEdge } :
            b \in SeqsUpTo(MarkdownBlocks, MaxBlocks) }

---------------------------------------------------------------------------
(* Specifications *)

\* a whole run of run_daily_summary
Init ==
    /\ pc = "start"
    /\ doc = <<>>
    /\ max_articles = DefaultMaxArticles
    /\ idx = 1
    /\ articles = <<>>
    /\ processed_urls = {}
    /\ page = NoResponse
    /\ content = <<>>
    /\ attempt = 0
    /\ summary = JNull
    /\ html_content = NoEmail
    /\ log = <<>>

Next ==
    \/ FetchHome
    \/ LinkStep
    \/ LinksDone
    \/ ContentStep
    \/ ContentDone
    \/ CheckArticles
    \/ Attempt
    \/ Fallback
    \/ Render
    \/ Send

Spec == Init /\ [][Next]_vars

\* the link-extraction loop of scrape_articles over any document and cap
InitLinks ==
    /\ pc = "links"
    /\ doc \in SeqsUpTo(HomeAnchors, MaxAnchors)
    /\ max_articles \in 0..MaxCap
    /\ idx = 1
    /\ articles = <<>>
    /\ processed_urls = {}
    /\ page = NoResponse
    /\ content = <<>>
    /\ attempt = 0
    /\ summary = JNull
    /\ html_content = NoEmail
    /\ log = <<>>

NextLinks == LinkStep \/ LinksDone

SpecLinks == InitLinks /\ [][NextLinks]_vars

\* get_article_content on any article page
InitContent ==
    /\ pc = "get_content"
    /\ page \in {NoResponse} \cup
                { Response(b) : b \in SeqsUpTo(PageElements, MaxPageElements) }
    /\ doc = <<>>
    /\ max_articles = DefaultMaxArticles
    /\ idx = 1
    /\ articles = <<>>
    /\ processed_urls = {}
    /\ content = <<>>
    /\ attempt = 0
    /\ summary = JNull
    /\ html_content = NoEmail
    /\ log = <<>>

NextContent == GetContent

SpecContent == InitContent /\ [][NextContent]_vars

\* create_fallback_summary on any article list, the retry loop being over
InitFallback ==
    /\ pc = "summarize"
    /\ attempt = MaxAttempts
    /\ articles \in FallbackInputs
    /\ doc = <<>>
    /\ max_articles = DefaultMaxArticles
    /\ idx = 1
    /\ processed_urls = {}
    /\ page = NoResponse
    /\ content = <<>>
    /\ summary = JNull
    /\ html_content = NoEmail
    /\ log = <<>>

NextFallback == Fallback

SpecFallback == InitFallback /\ [][NextFallback]_vars

\* convert_markdown_to_html, called by create_beautiful_email, on any digest
InitMarkdown ==
    /\ pc = "render"
    /\ summary \in { JStr(text) : text \in MarkdownInputs }
    /\ articles = MakeArticles(<< <<"O","h","i","o"," ","S","t","a","t","e"," ","w","i","n","s"," ","b","i","g"," ","g","a","m","e">> >>)
    /\ attempt = 0
    /\ doc = <<>>
    /\ max_articles = DefaultMaxArticles
    /\ idx = 1
    /\ processed_urls = {}
    /\ page = NoResponse
    /\ content = <<>>
    /\ html_content = NoEmail
    /\ log = <<>>

NextMarkdown == Render

SpecMarkdown == InitMarkdown /\ [][NextMarkdown]_vars

---------------------------------------------------------------------------
(* What the log shows *)

Count(seq, Test(_)) == Len(SelectSeq(seq, Test))

IsPost(e) == e.call = "requests.post"
IsRetrySleep(e) == e.call = "time.sleep" /\ e.arg = RetryDelay
IsFallbackCall(e) == e.call = "create_fallback_summary"
IsSend(e) == e.call = "resend.Emails.send"

\* where the log holds the call of summarize_with_deepseek (0: nowhere)
SummarizeStart ==
    IF \E i \in 1..Len(log) : log[i].call = "summarize_with_deepseek"
    THEN CHOOSE i \in 1..Len(log) : log[i].call = "summarize_with_deepseek"
    ELSE 0

\* the requests, sleeps and fallback call that summarize_with_deepseek made
SummarizeTrace ==
    SelectSeq(SubSeq(log, SummarizeStart + 1, Len(log)),
              LAMBDA e : e.call \in {"requests.post", "time.sleep",
                                     "create_fallback_summary"})

SummarizeReturned == pc \in {"render", "send", "raised", "done"} /\ SummarizeTrace # <<>>

\* the response is JSON that holds choices[0].message.content
HasContent(body) ==
    /\ body.t = "obj"
    /\ "choices" \in DOMAIN body.v
    /\ body.v["choices"].t = "arr"
    /\ Len(body.v["choices"].v) > 0
    /\ body.v["choices"].v[1].t = "obj"
    /\ "message" \in DOMAIN body.v["choices"].v[1].v
    /\ body.v["choices"].v[1].v["message"].t = "obj"
    /\ "content" \in DOMAIN body.v["choices"].v[1].v["message"].v

ContentOf(body) == body.v["choices"].v[1].v["message"].v["content"]

\* a 2xx answer whose content field is there
Succeeded(resp) == resp.kind = "ok" /\ HasContent(resp.body)

\* timeout, network error, non-2xx status, unparsable response
TransportFailure(resp) ==
    resp.kind \in {"timeout", "connection_error", "http_error", "invalid_json"}

---------------------------------------------------------------------------
(* C1: when every call to the endpoint fails, summarize_with_deepseek makes
   exactly 3 requests with timeouts 30, 45 and 60, sleeps 5 seconds after
   the first and after the second and not after the third, and returns
   create_fallback_summary of the same articles. *)
C1_AlwaysFailingEndpoint ==
    (/\ SummarizeReturned
     /\ \A i \in 1..Len(SummarizeTrace) :
            IsPost(SummarizeTrace[i]) => TransportFailure(SummarizeTrace[i].resp))
    => /\ [i \in 1..Len(SummarizeTrace) |->
               <<SummarizeTrace[i].call, SummarizeTrace[i].arg>>]
          = << <<"requests.post", 30>>, <<"time.sleep", 5>>,
               <<"requests.post", 45>>, <<"time.sleep", 5>>,
               <<"requests.post", 60>>, <<"create_fallback_summary", 0>> >>
       /\ summary = JStr(create_fallback_summary(articles))

C1_Witness ==
    /\ pc = "render"
    /\ Count(SummarizeTrace, IsPost) = 3
    /\ SummarizeTrace[1].resp.kind = "timeout"
    /\ SummarizeTrace[3].resp.kind = "http_error"
    /\ SummarizeTrace[5].resp.kind = "invalid_json"
    /\ IsFallbackCall(SummarizeTrace[6])

(* C2: whenever a run reaches rendering, the digest handed to the renderer
   is a non-empty string, whatever the endpoint answered. *)
C2_DigestNonEmptyString ==
    pc = "render" => (summary.t = "str" /\ summary.v # <<>>)

(* C3: a 2xx response whose choices[0].message.content is absent or is no
   string counts as a failed attempt: the loop goes on (or the fallback
   follows) and its value is not returned as the digest. *)
C3_MalformedContentFails ==
    \A i \in 1..Len(SummarizeTrace) :
        (/\ IsPost(SummarizeTrace[i])
         /\ SummarizeTrace[i].resp.kind = "ok"
         /\ ~(/\ HasContent(SummarizeTrace[i].resp.body)
              /\ ContentOf(SummarizeTrace[i].resp.body).t = "str"))
        => (i < Len(SummarizeTrace) \/ pc = "summarize")

---------------------------------------------------------------------------
\* an absolute URL starts with a scheme: letters, then a colon
IsAbsoluteUrl(url) ==
    \E k \in 2..Len(url) :
        /\ url[k] = ":"
        /\ \A j \in 1..(k - 1) :
               \E n \in 1..Len(LowerChars) : url[j] \in {LowerChars[n], UpperChars[n]}

RECURSIVE IsSubsequence(_, _)
IsSubsequence(a, b) ==
    IF a = <<>> THEN TRUE
    ELSE IF b = <<>> THEN FALSE
    ELSE IF Head(a) = Head(b) THEN IsSubsequence(Tail(a), Tail(b))
    ELSE IsSubsequence(a, Tail(b))

(* C4: the list built by the link-extraction loop has at most max_articles
   entries, no two entries with the same url, only titles whose trimmed
   length is above 10, and its entries are in document order. *)
C4_LinkList ==
    /\ Len(articles) <= max_articles
    /\ \A i, j \in 1..Len(articles) : i # j => articles[i].url # articles[j].url
    /\ \A i \in 1..Len(articles) : Len(strip(articles[i].title)) > 10
    /\ IsSubsequence([i \in 1..Len(articles) |-> <<articles[i].title, articles[i].url>>],
                     [i \in 1..Len(doc) |->
                         <<get_text(doc[i].text), resolve_url(doc[i].href)>>])

\* a finished extraction that hit the cap, skipped an address it had taken
\* already and left a qualifying later link out
C4_Witness ==
    /\ pc = "content"
    /\ Len(doc) >= 3
    /\ max_articles = 1
    /\ Len(articles) = 1
    /\ resolve_url(doc[2].href) = articles[1].url
    /\ Len(get_text(doc[2].text)) > 10
    /\ resolve_url(doc[3].href) # articles[1].url
    /\ is_article_href(doc[3].href)
    /\ Len(get_text(doc[3].text)) > 10

(* C5: every url stored by link extraction is absolute, whether the href
   starts with a slash, with a scheme or with neither. *)
C5_UrlsAbsolute ==
    \A i \in 1..Len(articles) : IsAbsoluteUrl(articles[i].url)

---------------------------------------------------------------------------
(* C6: a run that discovers no article ends after logging, with no call to
   the summarizer, the renderer or the mail service; a run that sends does
   so at most once and only after summarize_with_deepseek has returned. *)
C6_NoArticlesNoCalls ==
    /\ articles = <<>> =>
           \A i \in 1..Len(log) :
               log[i].call \notin {"summarize_with_deepseek", "requests.post",
                                   "create_fallback_summary",
                                   "create_beautiful_email", "resend.Emails.send"}
    /\ (pc = "done" /\ articles = <<>>) => log[Len(log)].call = "logger.warning"
    /\ Count(log, IsSend) <= 1
    /\ \A i \in 1..Len(log) :
           IsSend(log[i]) =>
               \E j \in 1..(i - 1) :
                   /\ log[j].call = "summarize_with_deepseek"
                   /\ \E k \in (j + 1)..(i - 1) :
                          \/ IsFallbackCall(log[k])
                          \/ IsPost(log[k]) /\ Succeeded(log[k].resp)

\* the homepage was fetched, held links, and none of them was accepted
C6_Witness ==
    /\ pc = "done"
    /\ articles = <<>>
    /\ doc # <<>>
    /\ log[Len(log)].call = "logger.warning"

---------------------------------------------------------------------------
FirstMatch(blocks) ==
    Minimum({ i \in 1..Len(content_selectors) :
                  select(content_selectors[i], blocks) # <<>> })

AnyMatch(blocks) ==
    \E i \in 1..Len(content_selectors) : select(content_selectors[i], blocks) # <<>>

FirstMatchText(blocks) ==
    LET hit == select(content_selectors[FirstMatch(blocks)], blocks)
    IN  JoinSpace([i \in 1..Len(hit) |-> get_text(hit[i])])

ScanText(blocks) ==
    LET ps == ParagraphsOf(blocks)
    IN  JoinSpace([i \in 1..Min(10, Len(ps)) |-> get_text(ps[i])])

(* C7, as stated: if any strategy matches, the output is the joined text of
   the first matching strategy cut to 2000; the paragraph scan is used if
   and only if no strategy matches. *)
C7_FirstMatchWins ==
    (pc = "got_content" /\ page.ok) =>
        content = IF AnyMatch(page.blocks)
                  THEN Take(FirstMatchText(page.blocks), 2000)
                  ELSE Take(ScanText(page.blocks), 2000)

(* C7, amended: the joined text of the first matching strategy, cut to
   2000, is the output when it is not empty; the scan of the first 10
   paragraphs, cut to 2000, is the output when no strategy matches or when
   the first matching strategy's joined text is empty. *)
C7_FirstNonEmptyMatchWins ==
    (pc = "got_content" /\ page.ok) =>
        content = IF AnyMatch(page.blocks) /\ FirstMatchText(page.blocks) # <<>>
                  THEN Take(FirstMatchText(page.blocks), 2000)
                  ELSE Take(ScanText(page.blocks), 2000)

\* a strategy matched an element without text and the paragraphs were read
C7_Witness ==
    /\ pc = "got_content"
    /\ page.ok
    /\ AnyMatch(page.blocks)
    /\ FirstMatchText(page.blocks) = <<>>
    /\ content # <<>>
    /\ content = ScanText(page.blocks)

---------------------------------------------------------------------------
RECURSIVE ParseSections(_, _)
\* the sections of a digest: each label line with the bullet lines under it
ParseSections(lines, acc) ==
    IF lines = <<>> THEN acc
    ELSE IF Head(lines) # <<>> /\ Head(lines)[1] = TagMark
    THEN ParseSections(Tail(lines),
             Append(acc, [category |-> Head(lines)[3], titles |-> <<>>]))
    ELSE IF Head(lines) # <<>> /\ Head(lines)[1] = BulletMark /\ acc # <<>>
    THEN ParseSections(Tail(lines),
             [acc EXCEPT ![Len(acc)].titles =
                 Append(@, SubSeq(Head(lines), 2, Len(Head(lines)) - 1))])
    ELSE ParseSections(Tail(lines), acc)

PriorityOrder == <<"Local News", "Sports", "Business">>

KeywordsOf(name) ==
    IF name = "Local News" THEN local_words
    ELSE IF name = "Sports" THEN sports_words
    ELSE business_words

TitleMatches(name, folded) ==
    \E word \in KeywordsOf(name) : Contains(word, folded)

\* the first category in priority order with a keyword in the title
ExpectedCategory(title) ==
    LET folded == lower(title)
        hits == { k \in 1..3 : TitleMatches(PriorityOrder[k], folded) }
    IN  IF hits = {} THEN "Other" ELSE PriorityOrder[Minimum(hits)]

\* the titles, in discovery order, of the first 8 articles of one category
AssignedTitles(name) ==
    LET first8 == SubSeq(articles, 1, Min(8, Len(articles)))
        mine == SelectSeq(first8, LAMBDA a : ExpectedCategory(a.title) = name)
    IN  [i \in 1..Len(mine) |-> mine[i].title]

ExpectedSections ==
    LET all == [k \in 1..4 |->
                   LET name == <<"Local News", "Sports", "Business", "Other">>[k]
                       mine == AssignedTitles(name)
                   IN  [category |-> name,
                        titles |-> SubSeq(mine, 1, Min(3, Len(mine)))]]
    IN  SelectSeq(all, LAMBDA sec : sec.titles # <<>>)

FallbackReturned ==
    pc = "render" /\ log # <<>> /\ IsFallbackCall(log[Len(log)])

ohio_state == <<"O","h","i","o"," ","S","t","a","t","e"," ","w","i","n","s"," ","b","i","g"," ","g","a","m","e">>

(* C8: create_fallback_summary puts each of the first 8 articles into the
   first category, in the order Local News, Sports, Business, that has a
   keyword in its title, else into Other; the digest has one section per
   non-empty category in the order Local News, Sports, Business, Other with
   the first 3 titles of the category at most, and no title of a later
   article. *)
C8_FallbackSections ==
    FallbackReturned =>
        LET expected == ExpectedSections
            listed == ParseSections(split_lines(summary.v), <<>>)
        IN  /\ listed = expected
            /\ \A s \in 1..Len(listed) :
                   /\ Len(listed[s].titles) <= 3
                   /\ \A n \in 1..Len(listed[s].titles) :
                          \E i \in 1..Min(8, Len(articles)) :
                              articles[i].title = listed[s].titles[n]
            /\ (\E i \in 1..Min(8, Len(articles)) : articles[i].title = ohio_state)
                   => (listed[1].category = "Local News"
                       /\ \E n \in 1..Len(listed[1].titles) :
                              listed[1].titles[n] = ohio_state)

\* nine articles, four of them sports, the ninth the only one of its kind
C8_Witness ==
    /\ FallbackReturned
    /\ Len(articles) = 9
    /\ articles[1].title = ohio_state
    /\ Count(SubSeq(articles, 1, 8), LAMBDA a : ExpectedCategory(a.title) = "Sports") >= 4
    /\ ExpectedCategory(articles[9].title) = "Business"
    /\ \A i \in 1..8 : ExpectedCategory(articles[i].title) # "Business"
    /\ Len(ParseSections(split_lines(summary.v), <<>>)) = 2

---------------------------------------------------------------------------
RECURSIVE ParagraphElements(_)
\* the contents of the p elements of an HTML fragment
ParagraphElements(h) ==
    IF h = <<>> THEN <<>>
    ELSE IF h[1] = "<p>"
    THEN LET closes == { i \in 2..Len(h) : h[i] = "</p>" }
         IN  IF closes = {} THEN <<Tail(h)>>
             ELSE <<SubSeq(h, 2, Minimum(closes) - 1)>>
                  \o ParagraphElements(SubSeq(h, Minimum(closes) + 1, Len(h)))
    ELSE ParagraphElements(Tail(h))

\* where a block starts that a single newline does not join to the block
\* before it
GroupStarts(text) ==
    { i \in 1..Len(text) :
        /\ text[i] # "\n"
        /\ \/ i = 1
           \/ text[i - 1] = "\n" /\ (i = 2 \/ text[i - 2] = "\n") }

BlockEnd(text, i) ==
    Minimum({ e \in i..Len(text) : e = Len(text) \/ text[e + 1] = "\n" })

\* no single newline joins the block from i to a block behind it
Isolated(text, i) ==
    LET e == BlockEnd(text, i)
    IN  \/ e + 1 >= Len(text)
        \/ text[e + 2] = "\n"

StripBreaks(para) ==
    LET a == IF para # <<>> /\ para[1] = "<br>" THEN 2 ELSE 1
        b == IF Len(para) >= a /\ para[Len(para)] = "<br>"
             THEN Len(para) - 1 ELSE Len(para)
    IN  SubSeq(para, a, b)

hello_world == <<"*","*","H","e","l","l","o","*","*"," ","*","w","o","r","l","d","*">>
second_para == <<"S","e","c","o","n","d"," ","p","a","r","a">>
hi_header == <<"#"," ","H","i">>

hello_world_html ==
    <<"<strong>","H","e","l","l","o","</strong>"," ","<em>","w","o","r","l","d","</em>">>

\* the markup of the blocks the inputs are made of
ExpectedMarkup(block) ==
    IF block = hello_world THEN hello_world_html
    ELSE IF block = hi_header THEN <<"<h1>","H","i","</h1>">>
    ELSE block

(* C9: for a text of blocks separated by runs of newlines,
   convert_markdown_to_html gives one paragraph element per block that two
   or more newlines separate from its neighbours, in input order and holding
   the block's markup, and never an empty paragraph element; newlines alone
   give no paragraph at all, and the two-block example gives two. *)
C9_Paragraphs ==
    pc = "send" =>
        LET text == summary.v
            h == html_content.summary_content
            paras == ParagraphElements(h)
            starts == GroupStarts(text)
        IN  /\ ~Contains(<<"<p>", "</p>">>, h)
            /\ ~Contains(<<"<p>", "<br>", "</p>">>, h)
            /\ Len(paras) = Cardinality(starts)
            /\ \A i \in starts :
                   Isolated(text, i) =>
                       StripBreaks(paras[Cardinality({ j \in starts : j <= i })])
                           = ExpectedMarkup(SubSeq(text, i, BlockEnd(text, i)))
            /\ (\A i \in 1..Len(text) : text[i] = "\n") => h = <<>>
            /\ text = hello_world \o <<"\n", "\n">> \o second_para
                   => h = <<"<p>">> \o hello_world_html \o <<"</p>", "<p>">>
                          \o second_para \o <<"</p>">>

\* four newlines between two blocks: the empty paragraph between them is gone
C9_Witness ==
    /\ pc = "send"
    /\ summary.v = hello_world \o <<"\n", "\n", "\n", "\n">> \o second_para
    /\ Len(ParagraphElements(html_content.summary_content)) = 2

---------------------------------------------------------------------------
(* C10: summarize_with_deepseek stops at the first successful attempt i
   (counted from 0), returns that response's message text as it is, made i
   sleeps of 5 seconds and makes no request or sleep after it; the fallback
   is invoked if and only if all 3 attempts failed. *)
C10_FirstSuccessReturns ==
    /\ \A i \in 1..Len(SummarizeTrace) :
           (IsPost(SummarizeTrace[i]) /\ Succeeded(SummarizeTrace[i].resp)) =>
               /\ i = Len(SummarizeTrace)
               /\ pc # "summarize"
               /\ summary = ContentOf(SummarizeTrace[i].resp.body)
               /\ Count(SummarizeTrace, IsRetrySleep) = Count(SummarizeTrace, IsPost) - 1
               /\ Count(SummarizeTrace, IsRetrySleep)
                      = Count(SummarizeTrace, LAMBDA e : e.call = "time.sleep")
    /\ (\E i \in 1..Len(SummarizeTrace) : IsFallbackCall(SummarizeTrace[i])) =>
           /\ Count(SummarizeTrace, IsPost) = 3
           /\ \A i \in 1..Len(SummarizeTrace) :
                  IsPost(SummarizeTrace[i]) => ~Succeeded(SummarizeTrace[i].resp)
    /\ (/\ SummarizeReturned
        /\ \A i \in 1..Len(SummarizeTrace) :
               IsPost(SummarizeTrace[i]) => ~Succeeded(SummarizeTrace[i].resp))
       => /\ Count(SummarizeTrace, IsPost) = 3
          /\ IsFallbackCall(SummarizeTrace[Len(SummarizeTrace)])

\* two failures, then a completion: three requests, two sleeps, no fallback
C10_Witness ==
    /\ pc = "render"
    /\ Count(SummarizeTrace, IsPost) = 3
    /\ Succeeded(SummarizeTrace[Len(SummarizeTrace)].resp)
    /\ summary = JStr(llm_text)
    /\ Count(SummarizeTrace, IsRetrySleep) = 2

====
